---- MODULE Spec2Model ----
(***************************************************************************)
(* Model of cloudfoundryclient.v2.client.Client: the session state        *)
(* (_auth_data), login/logout, and the request dispatcher _issue_request  *)
(* with its re-login on a CF-InvalidAuthToken body.                       *)
(*                                                                         *)
(* The client is single-threaded and blocking.  An operation is split at  *)
(* its blocking network calls: pc says whether the client is idle, waits  *)
(* for the answer to a GET, or waits for the answer to the login POST.    *)
(* The server is the environment: every answer is drawn from a small set. *)
(***************************************************************************)
EXTENDS Integers, Sequences, FiniteSets, TLC

VARIABLES
    base_url,          \* self._base_url
    username,          \* self._username
    password,          \* self._password
    server_api_info,   \* self._server_api_info
    auth_data,         \* self._auth_data
    pc,                \* "idle" | "await_get" | "await_login"
    op,                \* the operation running or last run
    method,            \* _issue_request: parameter method
    url,               \* _issue_request: parameter url
    headers,           \* _issue_request: headers["Authorization"] of the current frame
    attemps,           \* _issue_request: parameter attemps of the current frame
    depth,             \* number of active _issue_request frames
    outcome,           \* how the last operation ended
    log,               \* requests sent by the running / last operation, in order
    lastGetResp,       \* history: the last answer to an authenticated GET
    lastLoginResp,     \* history: the last answer to a login POST
    lastLogin,         \* history: parsed body of the last successful login
    sinceLogout,       \* history: logout() ran and no login succeeded since
    loginCalled,       \* history: login() was called at least once
    authReqSent        \* history: a request other than discovery was sent

vars == <<base_url, username, password, server_api_info, auth_data, pc, op,
          method, url, headers, attemps, depth, outcome, log, lastGetResp,
          lastLoginResp, lastLogin, sinceLogout, loginCalled, authReqSent>>

config == <<base_url, username, password, server_api_info>>

-----------------------------------------------------------------------------
(* Bounds *)

\* Stand-in for the interpreter's recursion limit: the number of nested
\* _issue_request frames after which a further recursive call raises
\* RecursionError.
RecursionLimit == 3

-----------------------------------------------------------------------------
(* Python values *)

\* None, and JSON objects as functions from keys to strings.
None == [None |-> "None"]
EmptyDict == [k \in {} |-> ""]

\* Python truthiness of None / a dict.
Truthy(d) == d # None /\ DOMAIN d # {}

\* requests.codes.ok
codes_ok == 200

\* Class attributes: URL paths.
info_url == "/v2/info"
auth_token_url == "/oauth/token"
UrlTemplates ==
    [ get_organizations |-> "/v2/organizations",
      get_organization_summary |-> "/v2/organizations/%s/summary",
      get_organization_spaces |-> "/v2/organizations/%s/spaces",
      get_organization_services |-> "/v2/organizations/%s/services",
      get_organization_space_quota_definitions |->
          "/v2/organizations/%s/space_quota_definitions",
      get_apps_in_space |-> "/v2/spaces/%s/apps",
      get_spaces_summary |-> "/v2/spaces/%s/summary",
      get_app_service_bindings |-> "/v2/apps/%s/service_bindings" ]

Lookups == DOMAIN UrlTemplates
Guids == {"guid-1"}

\* self._base_url + (template % guid); a string is kept as its parts.
LookupUrl(base, name, guid) ==
    IF name = "get_organizations"
    THEN <<base, UrlTemplates[name]>>
    ELSE <<base, UrlTemplates[name], guid>>

-----------------------------------------------------------------------------
(* Response bodies: raw text, and what r.json() makes of it *)

TokA == "{\"token_type\": \"bearer\", \"access_token\": \"A\"}"
TokB == "{\"token_type\": \"mac\", \"access_token\": \"B\"}"
TokNoType == "{\"access_token\": \"A\"}"
EmptyObj == "{}"
BadCredentials == "bad credentials"
Expired == "{\"error_code\": \"CF-InvalidAuthToken\"}"
OtherError == "{\"error_code\": \"CF-NotAuthorized\"}"
Resources == "{\"resources\": \"r1\"}"
InfoUaa == "{\"token_endpoint\": \"https://uaa.example.com\"}"
InfoLogin == "{\"token_endpoint\": \"https://login.run.pivotal.io\"}"

\* Whether r.json() parses the text (otherwise it raises ValueError).
CanParse(text) == text # BadCredentials

\* r.json()
Json(text) ==
    CASE text = TokA -> [token_type |-> "bearer", access_token |-> "A"]
      [] text = TokB -> [token_type |-> "mac", access_token |-> "B"]
      [] text = TokNoType -> [access_token |-> "A"]
      [] text = EmptyObj -> EmptyDict
      [] text = Expired -> [error_code |-> "CF-InvalidAuthToken"]
      [] text = OtherError -> [error_code |-> "CF-NotAuthorized"]
      [] text = Resources -> [resources |-> "r1"]
      [] text = InfoUaa -> [token_endpoint |-> "https://uaa.example.com"]
      [] text = InfoLogin -> [token_endpoint |-> "https://login.run.pivotal.io"]

\* What the server may answer.
LoginResponses ==
    [status : {200, 201, 401, 500},
     text : {TokA, TokB, TokNoType, EmptyObj, BadCredentials}]
GetResponses ==
    [status : {200, 401},
     text : {Expired, OtherError, Resources, BadCredentials}]
InfoResponses == [status : {200}, text : {InfoUaa, InfoLogin, BadCredentials}]

NoResp == [status |-> 0, text |-> ""]

-----------------------------------------------------------------------------
(* Outcomes of an operation *)

Pending == [kind |-> "pending", payload |-> "", body |-> None]
Return(v) == [kind |-> "return", payload |-> "", body |-> v]
Raise(k, text) == [kind |-> k, payload |-> text, body |-> None]

-----------------------------------------------------------------------------
(* Requests *)

\* requests.get(self._base_url + self.info_url)
InfoReq(base) ==
    [method |-> "GET", url |-> <<base, info_url>>, authorization |-> <<>>,
     data |-> <<>>]

\* requests.get(url, headers=headers)
GetReq(u, h) ==
    [method |-> "GET", url |-> u, authorization |-> h, data |-> <<>>]

\* requests.post(url, data=payload, headers=headers) of login()
LoginReq(info, user, pass) ==
    [method |-> "POST",
     url |-> <<info["token_endpoint"], auth_token_url>>,
     authorization |-> <<"Basic Y2Y6">>,
     data |-> <<"grant_type=password&password=", pass,
                "&scope=&username=", user>>]

\* "%s %s" % (auth['token_type'], auth['access_token'])
Authorization(auth) == <<auth["token_type"], " ", auth["access_token"]>>

\* Whether both subscripts of the format succeed.
HasTokenKeys(auth) ==
    auth # None /\ {"token_type", "access_token"} \subseteq DOMAIN auth

-----------------------------------------------------------------------------
(* Session manager *)

\* Variant of check_logged_in: the test is left out.
check_logged_in_skipped(auth) == FALSE

\* _check_logged_in: TRUE when it raises NotLoggedIn.
check_logged_in(auth) == ~Truthy(auth)

\* _generic_request_headers: the exception it raises, "" when it returns.
generic_request_headers_raises(auth) ==
    IF check_logged_in(auth) THEN "NotLoggedIn"
    ELSE IF auth = None THEN "TypeError"
    ELSE IF ~HasTokenKeys(auth) THEN "KeyError"
    ELSE ""

\* Variant of login_fails: only 401 is taken as a failure.
login_fails_only_401(resp) == resp.status = 401

\* Variant of login_fails: the comparison is inverted.
login_fails_inverted(resp) == resp.status = codes_ok

\* login(): the status test that raises LoginError.
login_fails(resp) == resp.status # codes_ok

\* Variant of auth_data_on_login_error: a failed login drops the session.
auth_data_on_login_error_cleared(old) == None

\* login(): the raising branch assigns nothing to self._auth_data.
auth_data_on_login_error(old) == old

\* Variant of login_error: the exception is raised without the body.
login_error_without_text(resp) == Raise("LoginError", "")

\* login(): raise exceptions.LoginError(r.text)
login_error(resp) == Raise("LoginError", resp.text)

\* Variant of store_auth_data: a session already held is kept.
store_auth_data_keep_first(old, parsed) ==
    IF Truthy(old) THEN old ELSE parsed

\* Variant of store_auth_data: only the access token of a held session is
\* refreshed.
store_auth_data_token_only(old, parsed) ==
    IF HasTokenKeys(old) /\ "access_token" \in DOMAIN parsed
    THEN [old EXCEPT !["access_token"] = parsed["access_token"]]
    ELSE parsed

\* login(): self._auth_data = r.json()
store_auth_data(old, parsed) == parsed

\* Variant of check_expired_token: the comparison is inverted.
check_expired_token_negated(response) ==
    /\ "error_code" \in DOMAIN response
    /\ response["error_code"] # "CF-InvalidAuthToken"

\* Variant of check_expired_token: every answer counts as expiry.
check_expired_token_always(response) == TRUE

\* Variant of check_expired_token: any error_code counts as expiry.
check_expired_token_any_error(response) == "error_code" \in DOMAIN response

\* _check_expired_token: the test on the parsed body.
check_expired_token(response) ==
    /\ "error_code" \in DOMAIN response
    /\ response["error_code"] = "CF-InvalidAuthToken"

\* Variant of method_supported: the method is not tested.
method_supported_any(m) == TRUE

\* Variant of logout_auth_data: the session is left in place.
logout_auth_data_kept(auth) == auth

\* logout(): self._auth_data = None
logout_auth_data(auth) == None

\* Variant of rebuilt_authorization: the header of the first GET is reused.
rebuilt_authorization_stale(old, auth) == old

\* _issue_request: headers["Authorization"] rebuilt after the re-login.
rebuilt_authorization(old, auth) == Authorization(auth)

\* _issue_request: if method == 'GET'
method_supported(m) == m = "GET"

-----------------------------------------------------------------------------
(* State after construction: __init__ has stored the arguments, fetched   *)
(* the discovery document and set _auth_data to None.                     *)

Init ==
    /\ base_url = "https://api.run.pivotal.io/"
    /\ username \in {"foo@bar.com", "alice"}
    /\ password = "BAAAAH"
    /\ server_api_info \in {Json(InfoUaa), Json(InfoLogin)}
    /\ auth_data = None
    /\ pc = "idle"
    /\ op = "__init__"
    /\ method = ""
    /\ url = <<>>
    /\ headers = <<>>
    /\ attemps = 0
    /\ depth = 0
    /\ outcome = Return(None)
    /\ log = <<InfoReq(base_url)>>
    /\ lastGetResp = NoResp
    /\ lastLoginResp = NoResp
    /\ lastLogin = None
    /\ sinceLogout = FALSE
    /\ loginCalled = FALSE
    /\ authReqSent = FALSE

-----------------------------------------------------------------------------
(* Operations *)

\* An operation ends: control is back at the caller.
Finish(o) ==
    /\ pc' = "idle"
    /\ outcome' = o
    /\ headers' = <<>>
    /\ depth' = 0

\* Variant of GetInfo: the fetched document replaces the stored one.
GetInfoStoresInfo ==
    /\ pc = "idle"
    /\ \E r \in InfoResponses :
         /\ Finish(IF CanParse(r.text) THEN Return(Json(r.text))
                   ELSE Raise("ValueError", ""))
         /\ server_api_info' =
               IF CanParse(r.text) THEN Json(r.text) ELSE server_api_info
    /\ op' = "get_info"
    /\ log' = <<InfoReq(base_url)>>
    /\ lastGetResp' = NoResp
    /\ lastLoginResp' = NoResp
    /\ UNCHANGED <<base_url, username, password, auth_data, method, url,
                   attemps, lastLogin, sinceLogout, loginCalled,
                   authReqSent>>

\* get_info(): one unauthenticated GET, the parsed body is returned and
\* nothing is stored.
GetInfo ==
    /\ pc = "idle"
    /\ \E r \in InfoResponses :
         Finish(IF CanParse(r.text) THEN Return(Json(r.text))
                ELSE Raise("ValueError", ""))
    /\ op' = "get_info"
    /\ log' = <<InfoReq(base_url)>>
    /\ lastGetResp' = NoResp
    /\ lastLoginResp' = NoResp
    /\ UNCHANGED <<config, auth_data, method, url, attemps, lastLogin,
                   sinceLogout, loginCalled, authReqSent>>

\* login(), up to the POST being sent.
Login ==
    /\ pc = "idle"
    /\ op' = "login"
    /\ pc' = "await_login"
    /\ outcome' = Pending
    /\ log' = <<LoginReq(server_api_info, username, password)>>
    /\ loginCalled' = TRUE
    /\ authReqSent' = TRUE
    /\ lastGetResp' = NoResp
    /\ lastLoginResp' = NoResp
    /\ UNCHANGED <<config, auth_data, method, url, headers, attemps, depth,
                   lastLogin, sinceLogout>>

\* Variant of Logout: it first requires a session, as the lookups do.
LogoutChecksLoggedIn ==
    /\ pc = "idle"
    /\ IF Truthy(auth_data)
       THEN /\ auth_data' = None
            /\ Finish(Return(None))
       ELSE /\ auth_data' = auth_data
            /\ Finish(Raise("NotLoggedIn", ""))
    /\ op' = "logout"
    /\ log' = <<>>
    /\ sinceLogout' = TRUE
    /\ lastGetResp' = NoResp
    /\ lastLoginResp' = NoResp
    /\ UNCHANGED <<config, method, url, attemps, lastLogin, loginCalled,
                   authReqSent>>

\* logout()
Logout ==
    /\ pc = "idle"
    /\ auth_data' = logout_auth_data(auth_data)
    /\ op' = "logout"
    /\ Finish(Return(None))
    /\ log' = <<>>
    /\ sinceLogout' = TRUE
    /\ lastGetResp' = NoResp
    /\ lastLoginResp' = NoResp
    /\ UNCHANGED <<config, method, url, attemps, lastLogin, loginCalled,
                   authReqSent>>

\* _issue_request(method, url) called with headers=None, attemps=0, up to
\* the GET being sent: headers are built first, then the method is tested.
IssueRequest(name, m, u) ==
    /\ pc = "idle"
    /\ op' = name
    /\ method' = m
    /\ url' = u
    /\ attemps' = 0
    /\ lastGetResp' = NoResp
    /\ lastLoginResp' = NoResp
    /\ LET exc == generic_request_headers_raises(auth_data) IN
       IF exc # ""
       THEN /\ Finish(Raise(exc, ""))
            /\ log' = <<>>
            /\ UNCHANGED authReqSent
       ELSE IF ~method_supported(m)
       THEN /\ Finish(Raise("Exception",
                            "We only support GET calls right now.."))
            /\ log' = <<>>
            /\ UNCHANGED authReqSent
       ELSE /\ headers' = Authorization(auth_data)
            /\ depth' = 1
            /\ pc' = "await_get"
            /\ outcome' = Pending
            /\ log' = <<GetReq(u, Authorization(auth_data))>>
            /\ authReqSent' = TRUE
    /\ UNCHANGED <<config, auth_data, lastLogin, sinceLogout, loginCalled>>

\* The public get_* lookups: each formats its URL and delegates.
Lookup ==
    \E name \in Lookups, guid \in Guids :
        IssueRequest(name, "GET", LookupUrl(base_url, name, guid))

\* _issue_request called with a method other than GET.
IssueRequestOtherMethod ==
    \E m \in {"POST", "DELETE"}, guid \in Guids :
        IssueRequest("_issue_request", m,
                     LookupUrl(base_url, "get_organizations", guid))

\* _issue_request from the answer to its GET: r.json(), then
\* _check_expired_token, which calls login() on the sentinel; otherwise the
\* parsed body is returned.
RecvGet ==
    /\ pc = "await_get"
    /\ \E r \in GetResponses :
         /\ lastGetResp' = r
         /\ IF ~CanParse(r.text)
            THEN /\ Finish(Raise("ValueError", ""))
                 /\ UNCHANGED <<log, loginCalled>>
            ELSE IF check_expired_token(Json(r.text))
            THEN /\ pc' = "await_login"
                 /\ log' = Append(log, LoginReq(server_api_info, username,
                                                 password))
                 /\ loginCalled' = TRUE
                 /\ UNCHANGED <<outcome, headers, depth>>
            ELSE /\ Finish(Return(Json(r.text)))
                 /\ UNCHANGED <<log, loginCalled>>
    /\ UNCHANGED <<config, auth_data, op, method, url, attemps,
                   lastLoginResp, lastLogin, sinceLogout, authReqSent>>

\* login() from the answer to its POST, and, when login() was called by
\* _check_expired_token, the rest of that _issue_request frame: the
\* Authorization header is rebuilt and _issue_request calls itself with
\* (method, url, headers), attemps left at its default.
RecvLogin ==
    /\ pc = "await_login"
    /\ \E r \in LoginResponses :
         /\ lastLoginResp' = r
         /\ IF login_fails(r)
            THEN /\ Finish(login_error(r))
                 /\ auth_data' = auth_data_on_login_error(auth_data)
                 /\ UNCHANGED <<lastLogin, sinceLogout, log, attemps>>
            ELSE IF ~CanParse(r.text)
            THEN /\ Finish(Raise("ValueError", ""))
                 /\ UNCHANGED <<auth_data, lastLogin, sinceLogout, log,
                                attemps>>
            ELSE /\ auth_data' = store_auth_data(auth_data, Json(r.text))
                 /\ lastLogin' = Json(r.text)
                 /\ sinceLogout' = FALSE
                 /\ IF op = "login"
                    THEN /\ Finish(Return(Json(r.text)))
                         /\ UNCHANGED <<log, attemps>>
                    ELSE IF ~HasTokenKeys(auth_data')
                    THEN /\ Finish(Raise("KeyError", ""))
                         /\ UNCHANGED <<log, attemps>>
                    ELSE IF depth >= RecursionLimit
                    THEN /\ Finish(Raise("RecursionError", ""))
                         /\ UNCHANGED <<log, attemps>>
                    ELSE /\ headers' = rebuilt_authorization(headers,
                                                             auth_data')
                         /\ attemps' = 0
                         /\ depth' = depth + 1
                         /\ pc' = "await_get"
                         /\ log' = Append(log, GetReq(url, headers'))
                         /\ UNCHANGED outcome
    /\ UNCHANGED <<config, op, method, url, lastGetResp, loginCalled,
                   authReqSent>>

Next ==
    \/ GetInfo
    \/ Login
    \/ Logout
    \/ Lookup
    \/ IssueRequestOtherMethod
    \/ RecvGet
    \/ RecvLogin

Spec == Init /\ [][Next]_vars

-----------------------------------------------------------------------------
(* Properties *)

NumSent(m) == Len(SelectSeq(log, LAMBDA q : q.method = m))
NumGets == NumSent("GET")
NumLogins == NumSent("POST")

\* The operations that run _issue_request.
Dispatching == Lookups \cup {"_issue_request"}

\* C1: within one _issue_request call a sentinel answer leads to one login()
\* and one retried GET; a sentinel in the retried answer is returned, with
\* no second login and no third GET.
C1_ExactlyOneRetry ==
    op \in Dispatching => NumLogins <= 1 /\ NumGets <= 2

\* C2: an _issue_request call returns after at most two attempts: once the
\* second GET has been answered the call is over, whatever the answer, so
\* no re-login is ever started after it.
C2_ReturnsAfterTwoAttempts ==
    (op \in Dispatching /\ NumGets >= 2) => pc \in {"await_get", "idle"}

\* C3: from logout() until the next successful login the session is absent
\* and every lookup fails with NotLoggedIn without sending anything.
C3_NotLoggedInAfterLogout ==
    sinceLogout =>
        /\ auth_data = None
        /\ op \in Dispatching =>
              /\ pc = "idle"
              /\ outcome.kind = "NotLoggedIn"
              /\ log = <<>>

C3_Witness ==
    /\ sinceLogout
    /\ lastLogin # None
    /\ op \in Lookups
    /\ outcome.kind = "NotLoggedIn"

\* C4: while login() has never been called, a lookup fails with NotLoggedIn,
\* no authenticated GET and no login POST has been sent, and the session is
\* absent.
C4_FreshClientNotLoggedIn ==
    ~loginCalled =>
        /\ auth_data = None
        /\ ~authReqSent
        /\ op \in Lookups =>
              /\ pc = "idle"
              /\ outcome.kind = "NotLoggedIn"
              /\ log = <<>>

C4_Witness ==
    /\ ~loginCalled
    /\ ~sinceLogout
    /\ op \in Lookups
    /\ pc = "idle"

\* C5: every authenticated GET carries Authorization
\* "<token_type> <access_token>" of the most recent successful login
\* response, whether the header was built on entry or after a re-login.
C5_HeadersFromLatestLogin ==
    pc = "await_get" =>
        /\ HasTokenKeys(lastLogin)
        /\ log[Len(log)].authorization =
              <<lastLogin["token_type"], " ", lastLogin["access_token"]>>
        /\ headers = log[Len(log)].authorization

C5_Witness ==
    /\ pc = "await_get"
    /\ depth = 2
    /\ log[1].authorization = <<"bearer", " ", "A">>
    /\ log[3].authorization = <<"mac", " ", "B">>

\* C6: a login answer with a status outside 200..299 ends the call with
\* LoginError carrying the raw body, and nothing is returned.
C6_LoginErrorCarriesBody ==
    [][(pc = "await_login" /\ lastLoginResp'.status \notin 200..299) =>
          /\ pc' = "idle"
          /\ outcome'.kind = "LoginError"
          /\ outcome'.payload = lastLoginResp'.text
          /\ outcome'.body = None]_vars

C6_Witness ==
    /\ op = "login"
    /\ pc = "idle"
    /\ lastLoginResp = [status |-> 401, text |-> BadCredentials]
    /\ outcome = Raise("LoginError", BadCredentials)

\* C7: logout() never fails, leaves the session absent from every state,
\* sends nothing and touches neither credentials nor server info; a second
\* logout() ends in the state the first one left.
C7_LogoutClearsOnlySession ==
    [][op' = "logout" =>
          /\ auth_data' = None
          /\ pc' = "idle"
          /\ outcome' = Return(None)
          /\ log' = <<>>
          /\ authReqSent' = authReqSent
          /\ UNCHANGED config
          /\ (op = "logout" => UNCHANGED <<auth_data, outcome, log>>)]_vars

C7_Witness ==
    /\ op = "logout"
    /\ Truthy(lastLogin)
    /\ auth_data = None
    /\ outcome = Return(None)

\* C8 as stated: a call with a method other than GET ends with the usage
\* error in every session state, without any request.
C8_UsageErrorFirst ==
    op = "_issue_request" =>
        /\ pc = "idle"
        /\ outcome.kind = "Exception"
        /\ log = <<>>

\* C8 amended: a call with a method other than GET sends nothing and leaves
\* the session unchanged, but the headers are built first: the outcome is
\* NotLoggedIn without a session, KeyError when the stored session lacks a
\* token field, and the usage error otherwise.
C8_UsageErrorAfterHeaders ==
    [][op' = "_issue_request" =>
          /\ pc' = "idle"
          /\ log' = <<>>
          /\ auth_data' = auth_data
          /\ authReqSent' = authReqSent
          /\ outcome'.kind =
                IF auth_data = None \/ auth_data = EmptyDict
                THEN "NotLoggedIn"
                ELSE IF "token_type" \notin DOMAIN auth_data
                        \/ "access_token" \notin DOMAIN auth_data
                THEN "KeyError"
                ELSE "Exception"]_vars

C8_Witness ==
    /\ op = "_issue_request"
    /\ method = "POST"
    /\ auth_data = [token_type |-> "bearer", access_token |-> "A"]
    /\ outcome.kind = "Exception"
    /\ log = <<>>

\* C9: the session is absent or the whole parsed body of one successful
\* login response, the most recent one: both token fields come from it.
C9_SessionIsOneResponse ==
    auth_data # None =>
        /\ auth_data = lastLogin
        /\ \E t \in {r.text : r \in LoginResponses} :
              CanParse(t) /\ auth_data = Json(t)

C9_Witness ==
    /\ pc = "await_get"
    /\ depth = 2
    /\ log[1].authorization = <<"bearer", " ", "A">>
    /\ auth_data = [token_type |-> "mac", access_token |-> "B"]

\* C10: the answer to a GET leads to a re-login exactly when its parsed body
\* has error_code CF-InvalidAuthToken, whatever its status code.
C10_ReloginIffSentinel ==
    [][pc = "await_get" =>
          ((pc' = "await_login") <=> (lastGetResp'.text = Expired))]_vars

C10_Witness ==
    /\ pc = "await_login"
    /\ op \in Lookups
    /\ lastGetResp = [status |-> 200, text |-> Expired]

\* C11: a parsed GET answer without the sentinel is returned as it is and
\* changes neither the requests sent nor the session; when it answers the
\* first GET of the call, that GET is the only request and no login was sent.
C11_NoSentinelReturnsBody ==
    [][(/\ pc = "await_get"
        /\ CanParse(lastGetResp'.text)
        /\ lastGetResp'.text # Expired) =>
          /\ pc' = "idle"
          /\ outcome' = Return(Json(lastGetResp'.text))
          /\ log' = log
          /\ auth_data' = auth_data
          /\ depth = 1 =>
                /\ Len(log') = 1
                /\ log'[1].method = "GET"
                /\ log'[1].authorization =
                      <<auth_data["token_type"], " ",
                        auth_data["access_token"]>>]_vars

C11_Witness ==
    /\ op \in Lookups
    /\ pc = "idle"
    /\ lastGetResp = [status |-> 200, text |-> Resources]
    /\ outcome = Return([resources |-> "r1"])
    /\ Len(log) = 1
    /\ auth_data = lastLogin

\* C12: the GET sent after a re-login carries the Authorization header of
\* the session that re-login has just stored, and the session held when the
\* call is over is the one of its last successful re-login.
C12_RetryUsesFreshSession ==
    [][/\ (pc = "await_login" /\ pc' = "await_get") =>
             /\ auth_data' = Json(lastLoginResp'.text)
             /\ log'[Len(log')].method = "GET"
             /\ log'[Len(log')].authorization =
                   <<Json(lastLoginResp'.text)["token_type"], " ",
                     Json(lastLoginResp'.text)["access_token"]>>
       /\ (op' \in Dispatching /\ pc' = "idle" /\ Len(log') >= 3) =>
             /\ auth_data' = lastLogin'
             /\ log'[Len(log')].method = "GET" =>
                   log'[Len(log')].authorization =
                      <<auth_data'["token_type"], " ",
                        auth_data'["access_token"]>>]_vars

C12_Witness ==
    /\ op \in Lookups
    /\ pc = "idle"
    /\ outcome.kind = "return"
    /\ Len(log) = 3
    /\ log[1].authorization = <<"mac", " ", "B">>
    /\ log[3].authorization = <<"bearer", " ", "A">>
    /\ auth_data = [token_type |-> "bearer", access_token |-> "A"]

\* C13: when the re-login of a dispatcher call is answered with a status
\* outside 200..299 the call ends with LoginError carrying that answer's
\* body, no further request is sent and nothing is returned.
C13_ReloginFailureSurfaces ==
    [][(/\ pc = "await_login"
        /\ op \in Dispatching
        /\ lastLoginResp'.status \notin 200..299) =>
          /\ pc' = "idle"
          /\ outcome' = Raise("LoginError", lastLoginResp'.text)
          /\ outcome'.body # Json(Expired)
          /\ log' = log
          /\ log'[Len(log')].method = "POST"]_vars

C13_Witness ==
    /\ op \in Lookups
    /\ pc = "idle"
    /\ outcome.kind = "LoginError"
    /\ lastLoginResp.status = 500
    /\ lastGetResp.text = Expired
    /\ Len(log) = 2

\* C14 as stated: after login() was answered with any status in 200..299
\* and a body that parses, LoginError was not raised and the parsed body is
\* the session, one that lets an authenticated operation pass the login
\* check.
C14_SuccessStatusLogsIn ==
    (/\ op = "login"
     /\ pc = "idle"
     /\ lastLoginResp.status \in 200..299
     /\ CanParse(lastLoginResp.text)) =>
        /\ outcome.kind # "LoginError"
        /\ auth_data = Json(lastLoginResp.text)
        /\ auth_data # EmptyDict

\* C14 amended: an answer with status 200 and a body that parses is never a
\* LoginError and its parsed body becomes the session (and is what login()
\* returns); when that body is a non-empty object, a dispatcher call made
\* right after login() does not fail with NotLoggedIn.
C14_OkStatusLogsIn ==
    [][/\ (/\ pc = "await_login"
           /\ lastLoginResp'.status = 200
           /\ CanParse(lastLoginResp'.text)) =>
             /\ outcome'.kind # "LoginError"
             /\ auth_data' = Json(lastLoginResp'.text)
             /\ op = "login" =>
                   /\ pc' = "idle"
                   /\ outcome' = Return(Json(lastLoginResp'.text))
       /\ (/\ op = "login"
           /\ pc = "idle"
           /\ lastLoginResp.status = 200
           /\ CanParse(lastLoginResp.text)
           /\ Json(lastLoginResp.text) # EmptyDict
           /\ op' \in Dispatching) =>
             outcome'.kind # "NotLoggedIn"]_vars

C14_Witness ==
    /\ op \in Lookups
    /\ pc = "await_get"
    /\ depth = 1
    /\ sinceLogout = FALSE
    /\ lastLogin = [token_type |-> "mac", access_token |-> "B"]
    /\ log = <<GetReq(url, <<"mac", " ", "B">>)>>

\* C15: no step changes the base URL, the credentials or the stored server
\* info, and every login POST is built from them: it goes to
\* token_endpoint + /oauth/token with the stored password and username.
C15_ConfigNeverChanges ==
    [][/\ UNCHANGED <<base_url, username, password, server_api_info>>
       /\ \A i \in 1..Len(log') :
             log'[i].method = "POST" =>
                /\ log'[i].url =
                      <<server_api_info["token_endpoint"], "/oauth/token">>
                /\ log'[i].data =
                      <<"grant_type=password&password=", password,
                        "&scope=&username=", username>>]_vars

C15_Witness ==
    /\ op \in Lookups
    /\ Len(log) >= 4
    /\ log[2].method = "POST"
    /\ log[4] = log[2]
    /\ log[2].data[4] = "alice"
    /\ log[2].url[1] = "https://uaa.example.com"

\* C16: a login() that raises LoginError leaves the session as it was when
\* login() was called; a lookup made right after it is sent with the
\* Authorization of the session still held, or fails with NotLoggedIn when
\* none is held.
C16_FailedLoginKeepsSession ==
    [][/\ (pc = "idle" /\ pc' = "await_login") => auth_data' = auth_data
       /\ (pc = "await_login" /\ outcome'.kind = "LoginError") =>
             /\ auth_data' = auth_data
             /\ sinceLogout' = sinceLogout
       /\ (/\ op = "login"
           /\ pc = "idle"
           /\ outcome.kind = "LoginError"
           /\ op' \in Lookups) =>
             IF auth_data = None \/ auth_data = EmptyDict
             THEN outcome'.kind = "NotLoggedIn" /\ log' = <<>>
             ELSE IF {"token_type", "access_token"} \subseteq DOMAIN auth_data
             THEN /\ pc' = "await_get"
                  /\ auth_data' = auth_data
                  /\ log'[1].authorization =
                        <<auth_data["token_type"], " ",
                          auth_data["access_token"]>>
             ELSE outcome'.kind = "KeyError"]_vars

C16_Witness ==
    /\ op = "login"
    /\ pc = "idle"
    /\ outcome.kind = "LoginError"
    /\ lastLoginResp.status = 401
    /\ auth_data = [token_type |-> "bearer", access_token |-> "A"]

\* The requests of the running call alternate, starting with a GET.
Alternates(l) ==
    \A i \in 1..Len(l) : l[i].method = IF i % 2 = 1 THEN "GET" ELSE "POST"

\* C17 as stated: the requests of a dispatcher call alternate from a GET, a
\* login POST follows only a GET answered with the sentinel, every login
\* that succeeds is followed by one more GET, and a call that returns has
\* sent one GET more than logins.
C17_StrictAlternation ==
    [][/\ op' \in Dispatching => Alternates(log')
       /\ (/\ op' \in Dispatching
           /\ log' # log
           /\ Len(log') > 0
           /\ log'[Len(log')].method = "POST") =>
             /\ pc = "await_get"
             /\ lastGetResp'.text = Expired
             /\ log' = Append(log, log'[Len(log')])
       /\ (/\ pc = "await_login"
           /\ op \in Dispatching
           /\ lastLoginResp'.status = 200
           /\ CanParse(lastLoginResp'.text)) =>
             /\ pc' = "await_get"
             /\ Len(log') = Len(log) + 1
             /\ log'[Len(log')].method = "GET"
       /\ (op' \in Dispatching /\ pc' = "idle" /\ outcome'.kind = "return")
             => NumGets' = NumLogins' + 1]_vars

\* C17 amended: as stated, except that a login that succeeds is followed by
\* at most one more GET, and by exactly one when its answer carries
\* token_type and access_token and the recursion limit is not reached.
C17_Alternation ==
    [][/\ op' \in Dispatching => Alternates(log')
       /\ (/\ op' \in Dispatching
           /\ log' # log
           /\ Len(log') > 0
           /\ log'[Len(log')].method = "POST") =>
             /\ pc = "await_get"
             /\ lastGetResp'.text = Expired
             /\ log' = Append(log, log'[Len(log')])
       /\ (pc = "await_login" /\ op \in Dispatching) =>
             /\ log' = log \/ log' = Append(log, GetReq(url, headers'))
             /\ (/\ lastLoginResp'.status = 200
                 /\ CanParse(lastLoginResp'.text)
                 /\ {"token_type", "access_token"} \subseteq
                        DOMAIN Json(lastLoginResp'.text)
                 /\ depth < RecursionLimit) =>
                   /\ pc' = "await_get"
                   /\ Len(log') = Len(log) + 1
                   /\ log'[Len(log')].method = "GET"
       /\ (op' \in Dispatching /\ pc' = "idle" /\ outcome'.kind = "return")
             => NumGets' = NumLogins' + 1]_vars

C17_Witness ==
    /\ op \in Lookups
    /\ pc = "idle"
    /\ outcome = Return([resources |-> "r1"])
    /\ Len(log) = 5
    /\ Alternates(log)

====
